---- MODULE Spec2Model ----
(***************************************************************************)
(* Model of src/mpris.cpp: the PlayerManager registry (add_player_by_name, *)
(* on_name_vanished, selected_player), the per-player property handlers,   *)
(* and the OutputGenerator marquee (on_select, on_empty, on_state,         *)
(* on_update_seleceted, update_cover_art, update_to_display, display,      *)
(* scoll) together with the two escaping routines.                         *)
(*                                                                         *)
(* Strings are sequences of codepoints (one-character TLA+ strings): every *)
(* length and offset the marquee computes is a codepoint count             *)
(* (g_utf8_strlen, g_utf8_offset_to_pointer), and the escaped characters   *)
(* are single-byte ASCII, so the byte-wise escaping loops act per          *)
(* codepoint.                                                              *)
(***************************************************************************)
EXTENDS Integers, Sequences, FiniteSets, TLC

VARIABLES
    managed_players,      \* PlayerManager::managed_players (sequence of Player)
    selected_idx,         \* PlayerManager::selected_idx
    to_display,           \* OutputGenerator::to_display
    to_display_utf8_len,  \* OutputGenerator::to_display_utf8_len
    needs_scrolling,      \* OutputGenerator::needs_scrolling
    display_offset,       \* OutputGenerator::display_offset
    is_playing,           \* OutputGenerator::is_playing
    last_src,             \* OutputGenerator::last_src
    cache,                \* what sits at cache_path: <<>> (nothing) or <<target of the link>>
    running,              \* FALSE once an exception has left an event callback
    emitted,              \* lines written to stdout by the last event
    selects,              \* uids handed to Handler::on_select by the last event
    updates,              \* arguments of on_update_seleceted calls of the last event
    lastUpd,              \* arguments of the most recent on_update_seleceted call
    repeated,             \* the last event called on_update_seleceted with the title, artist
                          \* and playing state of the call before it
    lastEvent,            \* the last event handled
    e2e,                  \* how far the events so far follow: first player appears playing,
                          \* pauses, vanishes
    nticks,               \* scroll steps taken since display_offset was last reset by an update
    pure,                 \* a call of encode on its own: the argument and, once made, the result
    art_updated,          \* whether the last event called update_cover_art
    mainpc,               \* the statement of main that runs next
    frames,               \* the exit_handler calls in progress, the innermost last
    handled_exit,         \* static bool handled_exit
    main_loop,            \* static GMainLoop* main_loop: whether it is set, and the loop's flag
    quits,                \* calls of g_main_loop_quit so far
    reports,              \* "Exiting cleanly..." lines written so far
    delivered             \* signals delivered so far

\* the registry, the OutputGenerator and their bookkeeping
evars == <<managed_players, selected_idx, to_display, to_display_utf8_len,
           needs_scrolling, display_offset, is_playing, last_src, cache, running,
           emitted, selects, updates, lastUpd, repeated, lastEvent, e2e, nticks, pure,
           art_updated>>

\* main and the exit handler
sdvars == <<mainpc, frames, handled_exit, main_loop, quits, reports, delivered>>

vars == <<evars, sdvars>>

(***************************************************************************)
(* Program constants                                                       *)
(***************************************************************************)
max_width == 50

NON_IDX == -1

seperator == <<" ", "~", " ">>

PLAYING == "PLAYING"
PAUSED == "PAUSED"
STOPPED == "STOPPED"

(***************************************************************************)
(* Bounds of the model                                                     *)
(***************************************************************************)
\* how many codepoints the long texts exceed max_width by
Over == 1

\* how many scroll steps past one full cycle of the long text the tick counter may run
ExtraTicks == 2

\* the longest argument encode is called with on its own
MaxLen == 3

\* the largest registry the registry specification builds
MaxPlayers == 3

\* how many termination signals the process receives at most
MaxSignals == 3

(***************************************************************************)
(* Escaping                                                                *)
(***************************************************************************)
Special == {"&", "\"", "'", "<", ">", "\n", "\t", "\r"}

\* the switch of EscapedString::operator<<: the escape of a character,
\* empty for a character written as it is
EscapeOf(c) ==
    CASE c = "&"  -> <<"&", "a", "m", "p", ";">>
      [] c = "\"" -> <<"&", "q", "u", "o", "t", ";">>
      [] c = "'"  -> <<"&", "a", "p", "o", "s", ";">>
      [] c = "<"  -> <<"&", "l", "t", ";">>
      [] c = ">"  -> <<"&", "g", "t", ";">>
      [] c = "\n" -> <<"\\", "n">>
      [] c = "\t" -> <<"\\", "t">>
      [] c = "\r" -> <<"\\", "r">>
      [] OTHER    -> <<>>

\* the switch of encode with the images of < and > exchanged
encodeAppend_swapped(c) ==
    CASE c = "&"  -> <<"&", "a", "m", "p", ";">>
      [] c = "\"" -> <<"&", "q", "u", "o", "t", ";">>
      [] c = "'"  -> <<"&", "a", "p", "o", "s", ";">>
      [] c = "<"  -> <<"&", "g", "t", ";">>
      [] c = ">"  -> <<"&", "l", "t", ";">>
      [] c = "\n" -> <<"\\", "n">>
      [] c = "\t" -> <<"\\", "t">>
      [] c = "\r" -> <<"\\", "r">>
      [] OTHER    -> <<c>>

\* the switch of encode: what one character appends to the buffer
encodeAppend(c) ==
    CASE c = "&"  -> <<"&", "a", "m", "p", ";">>
      [] c = "\"" -> <<"&", "q", "u", "o", "t", ";">>
      [] c = "'"  -> <<"&", "a", "p", "o", "s", ";">>
      [] c = "<"  -> <<"&", "l", "t", ";">>
      [] c = ">"  -> <<"&", "g", "t", ";">>
      [] c = "\n" -> <<"\\", "n">>
      [] c = "\t" -> <<"\\", "t">>
      [] c = "\r" -> <<"\\", "r">>
      [] OTHER    -> <<c>>

RECURSIVE encodeFrom(_, _, _)
encodeFrom(str, i, buffer) ==
    IF i > Len(str) THEN buffer
    ELSE encodeFrom(str, i + 1, buffer \o encodeAppend(str[i]))

encode(str) == encodeFrom(str, 1, <<>>)

\* the loop of operator<<: i is the 1-based scan position, last the number of
\* characters already flushed or escaped, os what has been written
RECURSIVE EscapedStringFrom(_, _, _, _)
EscapedStringFrom(s, i, last, os) ==
    IF i > Len(s)
    THEN IF last < Len(s) THEN os \o SubSeq(s, last + 1, Len(s)) ELSE os
    ELSE LET escape == EscapeOf(s[i]) IN
         IF escape # <<>>
         THEN EscapedStringFrom(s, i + 1, i,
                  (IF i - 1 > last THEN os \o SubSeq(s, last + 1, i - 1) ELSE os)
                  \o escape)
         ELSE EscapedStringFrom(s, i + 1, last, os)

EscapedString(s) == EscapedStringFrom(s, 1, 0, <<>>)

\* [begin + start, begin + start + length) in codepoints
utf8_substr(str, start, length) == SubSeq(str, start + 1, start + length)

(***************************************************************************)
(* OutputGenerator.  The engine's fields travel as a record e through the  *)
(* operators below; the actions copy the record back into the variables.   *)
(***************************************************************************)
Engine ==
    [to_display |-> to_display, to_display_utf8_len |-> to_display_utf8_len,
     needs_scrolling |-> needs_scrolling, display_offset |-> display_offset,
     is_playing |-> is_playing, last_src |-> last_src, cache |-> cache,
     art_updated |-> FALSE]

\* a line on stdout: {"text":"<i>payload</i>"}; by is the routine that wrote it
Line(by, italic, payload) == [by |-> by, italic |-> italic, payload |-> payload]

display_print(v) == Line("display_print", FALSE, v)

\* one codepoint more of the text after the separator
WrappedHead_long(left_over) == left_over - 2

\* how much of the start of the text follows a whole separator
WrappedHead(left_over) == left_over - 3

\* the guard with the comparison one too far
SeparatorPassed_late(sperator_offset) == sperator_offset > 3

\* the guard that restarts the cycle once the separator has scrolled out
SeparatorPassed(sperator_offset) == sperator_offset > 2

\* the text display() writes between the markers, and the offset it leaves
displayBody(e) ==
    IF ~e.needs_scrolling
    THEN [offset |-> e.display_offset, text |-> e.to_display]
    ELSE IF e.display_offset < e.to_display_utf8_len
    THEN LET remaining == e.to_display_utf8_len - e.display_offset IN
         IF remaining >= max_width
         THEN [offset |-> e.display_offset,
               text |-> EscapedString(utf8_substr(e.to_display, e.display_offset, max_width))]
         ELSE LET left_over == max_width - remaining
                  tail == EscapedString(utf8_substr(e.to_display, e.display_offset, remaining))
              IN IF left_over <= 3
                 THEN [offset |-> e.display_offset,
                       text |-> tail \o EscapedString(SubSeq(seperator, 1, left_over))]
                 ELSE [offset |-> e.display_offset,
                       text |-> tail \o seperator
                                \o EscapedString(utf8_substr(e.to_display, 0, WrappedHead(left_over)))]
    ELSE LET sperator_offset == e.display_offset - e.to_display_utf8_len IN
         IF SeparatorPassed(sperator_offset)
         THEN [offset |-> 0,
               text |-> EscapedString(utf8_substr(e.to_display, 0, max_width))]
         ELSE LET seperator_size == 3 - sperator_offset IN
              [offset |-> e.display_offset,
               text |-> SubSeq(seperator, sperator_offset + 1, 3)
                        \o EscapedString(utf8_substr(e.to_display, 0, max_width - seperator_size))]

\* display() with the markers written while playing
display_flipped(e) ==
    [e |-> [e EXCEPT !.display_offset = displayBody(e).offset],
     out |-> <<Line("display", e.is_playing, displayBody(e).text)>>]

\* display(): the engine afterwards and the one line written
display(e) ==
    [e |-> [e EXCEPT !.display_offset = displayBody(e).offset],
     out |-> <<Line("display", ~e.is_playing, displayBody(e).text)>>]

update_to_display(e, title, artist) ==
    LET has_seperator == title # <<>> /\ artist # <<>>
        len == Len(title) + (IF has_seperator THEN 3 ELSE 0) + Len(artist)
        sep == IF has_seperator THEN seperator ELSE <<>>
    IN IF len <= max_width
       THEN [e EXCEPT !.to_display_utf8_len = len, !.needs_scrolling = FALSE,
                      !.to_display = encode(title) \o sep \o encode(artist)]
       ELSE [e EXCEPT !.to_display_utf8_len = len, !.needs_scrolling = TRUE,
                      !.to_display = title \o sep \o artist]

FilePrefix == <<"f", "i", "l", "e", ":", "/", "/">>

starts_with(s, prefix) ==
    Len(s) >= Len(prefix) /\ SubSeq(s, 1, Len(prefix)) = prefix

\* filesystem calls succeed: whatever was at cache_path is removed, and a
\* file:// url leaves a link to the path after the prefix
update_cover_art(e, art_url) ==
    [e EXCEPT !.last_src.art_url = art_url,
              !.art_updated = TRUE,
              !.cache = IF starts_with(art_url, FilePrefix)
                        THEN <<SubSeq(art_url, 8, Len(art_url))>>
                        ELSE <<>>]

\* the arguments on_update_seleceted reads from the player
UpdArgs(player) ==
    [title |-> player.title, artist |-> player.artist, art_url |-> player.art_url,
     playing |-> (player.playback_status = PLAYING)]

\* on_update_seleceted rendering on every call, also when nothing differs
on_update_seleceted_always(e, player) ==
    LET new_is_playing == player.playback_status = PLAYING
        e1 == IF player.art_url # e.last_src.art_url
              THEN update_cover_art(e, player.art_url) ELSE e
    IN IF e1.last_src.title = player.title /\ e1.last_src.artist = player.artist
       THEN display([e1 EXCEPT !.is_playing = new_is_playing])
       ELSE display([update_to_display(
                        [e1 EXCEPT !.display_offset = 0,
                                   !.last_src.title = player.title,
                                   !.last_src.artist = player.artist],
                        player.title, player.artist)
                     EXCEPT !.is_playing = new_is_playing])

\* on_update_seleceted looking at the art url only when title or artist differs
on_update_seleceted_coupled(e, player) ==
    LET new_is_playing == player.playback_status = PLAYING
        e1 == IF player.art_url # e.last_src.art_url
              THEN update_cover_art(e, player.art_url) ELSE e
    IN IF e.last_src.title = player.title /\ e.last_src.artist = player.artist
       THEN IF e.is_playing # new_is_playing
            THEN display([e EXCEPT !.is_playing = new_is_playing])
            ELSE [e |-> e, out |-> <<>>]
       ELSE display([update_to_display(
                        [e1 EXCEPT !.display_offset = 0,
                                   !.last_src.title = player.title,
                                   !.last_src.artist = player.artist],
                        player.title, player.artist)
                     EXCEPT !.is_playing = new_is_playing])

on_update_seleceted(e, player) ==
    LET new_is_playing == player.playback_status = PLAYING
        e1 == IF player.art_url # e.last_src.art_url
              THEN update_cover_art(e, player.art_url) ELSE e
    IN IF e1.last_src.title = player.title /\ e1.last_src.artist = player.artist
       THEN IF e1.is_playing # new_is_playing
            THEN display([e1 EXCEPT !.is_playing = new_is_playing])
            ELSE [e |-> e1, out |-> <<>>]
       ELSE display([update_to_display(
                        [e1 EXCEPT !.display_offset = 0,
                                   !.last_src.title = player.title,
                                   !.last_src.artist = player.artist],
                        player.title, player.artist)
                     EXCEPT !.is_playing = new_is_playing])

on_select(e, player) == on_update_seleceted(e, player)

\* on_empty leaving needs_scrolling as it was
on_empty_scrolling(e) ==
    [e |-> e, out |-> <<display_print(<<>>)>>]

\* on_empty without the empty line
on_empty_silent(e) ==
    [e |-> [e EXCEPT !.needs_scrolling = FALSE], out |-> <<>>]

on_empty(e) ==
    [e |-> [e EXCEPT !.needs_scrolling = FALSE], out |-> <<display_print(<<>>)>>]

\* on_state without the is_selected test
on_state_any(e, player) == on_update_seleceted(e, player)

\* the engine is touched only for the selected player
on_state(e, player) ==
    IF ~player.is_selected THEN [e |-> e, out |-> <<>>]
    ELSE on_update_seleceted(e, player)

(***************************************************************************)
(* PlayerManager                                                           *)
(***************************************************************************)
\* the default-constructed PlayerUID, used where an event names no player
NoUid == [name |-> "", source |-> "NONE"]

\* operator== with the name comparison inverted
UidEq_neq(a, b) == a.source = b.source /\ a.name # b.name

\* PlayerUID::operator==
UidEq(a, b) == a.source = b.source /\ a.name = b.name

nullptr == [nullptr |-> TRUE]

selected_player ==
    IF selected_idx = NON_IDX THEN nullptr ELSE managed_players[selected_idx + 1]

\* std::vector::erase of the element at 1-based position k
Erase(seq, k) == SubSeq(seq, 1, k - 1) \o SubSeq(seq, k + 1, Len(seq))

\* find_if whose miss is taken for the first player
FindUid_first(players, uid) ==
    IF \E k \in 1..Len(players) : UidEq(players[k].uid, uid)
    THEN CHOOSE k \in 1..Len(players) :
            /\ UidEq(players[k].uid, uid)
            /\ \A j \in 1..(k - 1) : ~UidEq(players[j].uid, uid)
    ELSE IF players # <<>> THEN 1 ELSE 0

\* position of the first player with this uid, 0 when there is none (find_if)
FindUid(players, uid) ==
    IF \E k \in 1..Len(players) : UidEq(players[k].uid, uid)
    THEN CHOOSE k \in 1..Len(players) :
            /\ UidEq(players[k].uid, uid)
            /\ \A j \in 1..(k - 1) : ~UidEq(players[j].uid, uid)
    ELSE 0

\* a Player whose is_selected member starts out true
NewPlayer_selected(uid, track, status, art) ==
    [uid |-> uid, title |-> track.title, artist |-> track.artist, art_url |-> art,
     playback_status |-> status, is_selected |-> TRUE,
     reported |-> [title |-> track.title, artist |-> track.artist, status |-> status]]

\* the Player the constructor builds from the provider's current values.
\* reported is what the provider said last about the player; the program
\* does not read it
NewPlayer(uid, track, status, art) ==
    [uid |-> uid, title |-> track.title, artist |-> track.artist, art_url |-> art,
     playback_status |-> status, is_selected |-> FALSE,
     reported |-> [title |-> track.title, artist |-> track.artist, status |-> status]]

SetEngine(e) ==
    /\ to_display' = e.to_display
    /\ to_display_utf8_len' = e.to_display_utf8_len
    /\ needs_scrolling' = e.needs_scrolling
    /\ display_offset' = e.display_offset
    /\ is_playing' = e.is_playing
    /\ last_src' = e.last_src
    /\ cache' = e.cache
    /\ art_updated' = e.art_updated

NoUpd == [none |-> TRUE]

\* two on_update_seleceted calls with identical title, artist and playing state
SameText(a, b) == a.title = b.title /\ a.artist = b.artist /\ a.playing = b.playing

\* the stage of the run "the first player appears with a text and playing,
\* pauses, vanishes" the event ev leads to; "off" once the run has left it
NextStage(ev) ==
    IF /\ e2e = "start" /\ ev.kind = "appeared" /\ Len(managed_players') = 1
       /\ (managed_players'[1].title # <<>> \/ managed_players'[1].artist # <<>>)
       /\ managed_players'[1].playback_status = PLAYING
    THEN "appeared"
    ELSE IF /\ e2e = "appeared" /\ ev.kind = "changed"
            /\ managed_players'[1].title = managed_players[1].title
            /\ managed_players'[1].artist = managed_players[1].artist
            /\ managed_players'[1].playback_status = PAUSED
    THEN "paused"
    ELSE IF e2e = "paused" /\ ev.kind = "vanished" /\ ev.found
    THEN "vanished"
    ELSE "off"

\* bookkeeping of what the event did: r is an [e, out] result of the engine,
\* pre the lines written before it, upd the players handed to on_update_seleceted
Record(ev, pre, r, sel, upd, resetTicks) ==
    /\ SetEngine(r.e)
    /\ emitted' = pre \o r.out
    /\ selects' = sel
    /\ updates' = upd
    /\ lastUpd' = IF upd = <<>> THEN lastUpd ELSE upd[Len(upd)]
    /\ repeated' = (upd # <<>> /\ lastUpd # NoUpd /\ SameText(lastUpd, upd[Len(upd)]))
    /\ lastEvent' = ev
    /\ e2e' = NextStage(ev)
    /\ nticks' = IF resetTicks THEN 0 ELSE nticks
    /\ UNCHANGED <<pure, sdvars>>

\* whether an update with these arguments goes through the branch that resets display_offset
Rebuilds(e, player) ==
    ~(e.last_src.title = player.title /\ e.last_src.artist = player.artist)

ShouldNotExist ==
    <<"S","h","o","u","l","d"," ","n","o","t"," ","e","x","i","s","t","!">>

ShouldExist == <<"S","h","o","u","l","d"," ","e","x","i","s","t","!">>

\* add_player_by_name with a name the provider resolves to a live object
NameAppeared(uids, tracks, statuses, arts, maxPlayers) ==
    /\ running
    /\ \E uid \in uids :
        LET exists == \E k \in 1..Len(managed_players) : UidEq(managed_players[k].uid, uid)
            ev == [kind |-> "appeared", uid |-> uid, found |-> exists, was_selected |-> FALSE]
        IN IF exists
           THEN /\ UNCHANGED <<managed_players, selected_idx, running>>
                /\ Record(ev, <<display_print(ShouldNotExist)>>,
                          [e |-> Engine, out |-> <<>>], <<>>, <<>>, FALSE)
           ELSE /\ Len(managed_players) < maxPlayers
                /\ running' = running
                /\ \E track \in tracks, status \in statuses, art \in arts :
                    LET player == NewPlayer(uid, track, status, art) IN
                    IF selected_idx = NON_IDX
                    THEN LET sel == [player EXCEPT !.is_selected = TRUE] IN
                         /\ managed_players' = Append(managed_players, sel)
                         /\ selected_idx' = Len(managed_players')  - 1
                         /\ Record(ev, <<>>, on_select(Engine, sel), <<uid>>, <<UpdArgs(sel)>>,
                                   Rebuilds(Engine, sel))
                    ELSE /\ managed_players' = Append(managed_players, player)
                         /\ selected_idx' = selected_idx
                         /\ Record(ev, <<>>, [e |-> Engine, out |-> <<>>], <<>>, <<>>, FALSE)

\* add_player_by_name with a name playerctl_player_new_from_name fails on:
\* handle_gfunc throws inside the name-appeared callback and nothing catches it
NameAppearedThrows(uids) ==
    /\ running
    /\ \E uid \in uids :
        /\ ~\E k \in 1..Len(managed_players) : UidEq(managed_players[k].uid, uid)
        /\ running' = FALSE
        /\ UNCHANGED <<managed_players, selected_idx>>
        /\ Record([kind |-> "throw", uid |-> uid, found |-> FALSE, was_selected |-> FALSE],
                  <<>>, [e |-> Engine, out |-> <<>>], <<>>, <<>>, FALSE)

\* managed_players[selected_idx]->select() on the registry after the erase;
\* an index past the end reads outside the vector: any player value may come
\* back, modelled as any remaining player
SelectAt(players, idx) ==
    IF idx # NON_IDX /\ idx < Len(players) THEN {idx + 1} ELSE 1..Len(players)

\* the repair moving the selection on by one position where there is one
Reselect_next(idx, size, was_selected) ==
    IF was_selected /\ size > 1 THEN 1 ELSE idx

\* the repair moving the selection to the last player instead of keeping the position
Reselect_last(idx, size, was_selected) ==
    IF was_selected THEN size - 1 ELSE idx

\* lines 516-525 for a registry that is not empty after the erase: the index
\* select() is called on; size is the length after the erase
Reselect(idx, size, was_selected) ==
    IF was_selected /\ (idx = NON_IDX \/ idx >= size) THEN 0 ELSE idx

on_name_vanished(uid) ==
    LET k == FindUid(managed_players, uid) IN
    IF k = 0
    THEN /\ UNCHANGED <<managed_players, selected_idx, running>>
         /\ Record([kind |-> "vanished", uid |-> uid, found |-> FALSE, was_selected |-> FALSE],
                   <<display_print(ShouldExist)>>,
                   [e |-> Engine, out |-> <<>>], <<>>, <<>>, FALSE)
    ELSE LET was_selected == managed_players[k].is_selected
             erased == Erase(managed_players, k)
             ev == [kind |-> "vanished", uid |-> uid, found |-> TRUE, was_selected |-> was_selected]
         IN /\ running' = running
            /\ IF was_selected /\ erased = <<>>
               THEN /\ managed_players' = erased
                    /\ selected_idx' = NON_IDX
                    /\ Record(ev, <<>>, on_empty(Engine), <<>>, <<>>, FALSE)
               ELSE LET idx == Reselect(selected_idx, Len(erased), was_selected)
                    IN /\ selected_idx' = idx
                       /\ \E p \in SelectAt(erased, idx) :
                            LET sel == [erased[p] EXCEPT !.is_selected = TRUE] IN
                            /\ managed_players' = [erased EXCEPT ![p] = sel]
                            /\ Record(ev, <<>>, on_select(Engine, sel), <<sel.uid>>,
                                      <<UpdArgs(sel)>>, Rebuilds(Engine, sel))

NameVanished(uids) ==
    /\ running
    /\ \E uid \in uids : on_name_vanished(uid)

\* one PropertiesChanged message for the player at position k: the metadata and
\* playback-status handlers store the new values, then the g-properties-changed
\* handler calls on_state
\* what the provider reported is noted, but stored only in a selected player
StoreReport_selected(player, track, status, art) ==
    LET noted == [player EXCEPT
                    !.reported = [title |-> track.title, artist |-> track.artist,
                                  status |-> status]]
    IN IF player.is_selected
       THEN [noted EXCEPT !.title = track.title, !.artist = track.artist,
                          !.art_url = art, !.playback_status = status]
       ELSE noted

\* the metadata and playback-status handlers: the reported values are stored
\* in the player's state
StoreReport(player, track, status, art) ==
    [player EXCEPT
        !.title = track.title, !.artist = track.artist,
        !.art_url = art, !.playback_status = status,
        !.reported = [title |-> track.title, artist |-> track.artist, status |-> status]]

PropertyChanged(tracks, statuses, arts) ==
    /\ running
    /\ \E k \in 1..Len(managed_players), track \in tracks, status \in statuses, art \in arts :
        LET player == StoreReport(managed_players[k], track, status, art)
        IN /\ managed_players' = [managed_players EXCEPT ![k] = player]
           /\ UNCHANGED <<selected_idx, running>>
           /\ Record([kind |-> "changed", uid |-> player.uid, found |-> TRUE,
                      was_selected |-> player.is_selected],
                     <<>>, on_state(Engine, player), <<>>,
                     IF player.is_selected THEN <<UpdArgs(player)>> ELSE <<>>,
                     player.is_selected /\ Rebuilds(Engine, player))

\* scoll(), called from sroll_callback every 100 ms
Tick(maxTicks) ==
    /\ running
    /\ UNCHANGED <<managed_players, selected_idx, running>>
    /\ IF ~needs_scrolling
       THEN /\ Record([kind |-> "tick", uid |-> NoUid, found |-> FALSE, was_selected |-> FALSE],
                      <<>>, [e |-> Engine, out |-> <<>>], <<>>, <<>>, FALSE)
       ELSE /\ nticks < maxTicks
            /\ SetEngine(display([Engine EXCEPT !.display_offset = display_offset + 1]).e)
            /\ emitted' = display([Engine EXCEPT !.display_offset = display_offset + 1]).out
            /\ selects' = <<>>
            /\ updates' = <<>>
            /\ lastUpd' = lastUpd
            /\ repeated' = FALSE
            /\ lastEvent' = [kind |-> "tick", uid |-> NoUid, found |-> FALSE, was_selected |-> FALSE]
            /\ e2e' = "off"
            /\ nticks' = nticks + 1
            /\ UNCHANGED <<pure, sdvars>>

NoCall == [input |-> <<>>, output |-> <<>>, done |-> FALSE]

\* the OutputGenerator with an empty PlayerManager, before any name is added
EngineFields ==
    /\ managed_players = <<>>
    /\ selected_idx = NON_IDX
    /\ to_display = <<>>
    /\ to_display_utf8_len = 0
    /\ needs_scrolling = FALSE
    /\ display_offset = 0
    /\ is_playing = FALSE
    /\ last_src = [title |-> <<>>, artist |-> <<>>, art_url |-> <<>>]
    /\ cache = <<>>
    /\ running = TRUE
    /\ emitted = <<>>
    /\ selects = <<>>
    /\ updates = <<>>
    /\ lastUpd = NoUpd
    /\ repeated = FALSE
    /\ lastEvent = [kind |-> "init", uid |-> NoUid, found |-> FALSE, was_selected |-> FALSE]
    /\ e2e = "start"
    /\ nticks = 0
    /\ art_updated = FALSE

EngineInit == EngineFields /\ pure = NoCall

\* main inside g_main_loop_run, no signal received yet
LoopRunning ==
    /\ mainpc = "running"
    /\ frames = <<>>
    /\ handled_exit = FALSE
    /\ main_loop = [set |-> TRUE, is_running |-> TRUE]
    /\ quits = 0
    /\ reports = 0
    /\ delivered = 0

\* the event loop dispatching its first event
Init == EngineInit /\ LoopRunning

(***************************************************************************)
(* Inputs                                                                  *)
(***************************************************************************)
Fill(c, n) == [i \in 1..n |-> c]

NoTrack == [title |-> <<>>, artist |-> <<>>]

\* 7 codepoints, special characters on both sides of the separator
ShortTrack == [title |-> <<"a", "&">>, artist |-> <<"<", "b">>]

\* 30 + 3 + 17 = max_width codepoints
FitTrack ==
    [title |-> Fill("x", max_width - 20), artist |-> <<"'">> \o Fill("y", 16)]

\* max_width - 1 codepoints and no separator
SoloTrack == [title |-> Fill("t", max_width - 1), artist |-> <<>>]

\* 30 + Over + 3 + 17 = max_width + Over codepoints
LongTrack ==
    [title |-> <<"<", "\n">> \o Fill("x", max_width - 22 + Over),
     artist |-> Fill("y", 15) \o <<"&", "\"">>]

Tracks == {NoTrack, FitTrack, SoloTrack, LongTrack}

Statuses == {PLAYING, PAUSED, STOPPED}

NoArt == {<<>>}

UIDs == {[name |-> "a", source |-> "DBUS_SESSION"], [name |-> "b", source |-> "DBUS_SESSION"]}

\* one cycle of LongTrack (its length plus the separator) and ExtraTicks more
MaxTicks == (max_width + Over + 3) + ExtraTicks

Next ==
    \/ NameAppeared(UIDs, Tracks, Statuses, NoArt, Cardinality(UIDs))
    \/ NameAppearedThrows(UIDs)
    \/ NameVanished(UIDs)
    \/ PropertyChanged(Tracks, Statuses, NoArt)
    \/ Tick(MaxTicks)

Spec == Init /\ [][Next]_vars

(***************************************************************************)
(* The registry on its own: more identities and players, short texts       *)
(***************************************************************************)
RegUIDs ==
    {[name |-> n, source |-> src] : n \in {"a", "b"}, src \in {"DBUS_SESSION", "DBUS_SYSTEM"}}

RegTracks == {NoTrack, ShortTrack}

RegStatuses == {PLAYING, PAUSED}

NextRegistry ==
    \/ NameAppeared(RegUIDs, RegTracks, RegStatuses, NoArt, MaxPlayers)
    \/ NameAppearedThrows(RegUIDs)
    \/ NameVanished(RegUIDs)
    \/ PropertyChanged(RegTracks, RegStatuses, NoArt)

SpecRegistry == Init /\ [][NextRegistry]_vars

(***************************************************************************)
(* The cover-art cache: art urls vary, texts and ticks are few             *)
(***************************************************************************)
LocalArtA == FilePrefix \o <<"/", "a">>

LocalArtB == FilePrefix \o <<"/", "b">>

RemoteArt == <<"h", "t", "t", "p", ":", "/", "/", "r">>

Arts == {<<>>, LocalArtA, LocalArtB, RemoteArt}

CoverTracks == {ShortTrack, LongTrack}

NextCover ==
    \/ NameAppeared(UIDs, CoverTracks, RegStatuses, Arts, Cardinality(UIDs))
    \/ NameAppearedThrows(UIDs)
    \/ NameVanished(UIDs)
    \/ PropertyChanged(CoverTracks, RegStatuses, Arts)
    \/ Tick(ExtraTicks + 1)

SpecCover == Init /\ [][NextCover]_vars

(***************************************************************************)
(* main and exit_handler: signals arrive between any two statements        *)
(***************************************************************************)
\* the statements of main in order; "running" is inside g_main_loop_run,
\* "exited" after return 0 has started the atexit handlers
MainOrder ==
    <<"atexit", "sigint", "sigabrt", "sigterm", "construct", "timeout",
      "newloop", "run", "running", "unref", "return", "exited">>

PosOf(pc) == CHOOSE i \in 1..Len(MainOrder) : MainOrder[i] = pc

\* the signals std::signal has installed exit_handler for once main is at pc
Installed(pc) ==
    {sig \in {"SIGINT", "SIGABRT", "SIGTERM"} :
        PosOf(pc) > PosOf(CASE sig = "SIGINT" -> "sigint"
                            [] sig = "SIGABRT" -> "sigabrt"
                            [] sig = "SIGTERM" -> "sigterm")}

\* one statement of main; main is suspended while a handler runs
MainStep ==
    /\ frames = <<>>
    /\ mainpc # "exited"
    /\ IF mainpc = "newloop"
       THEN /\ main_loop' = [set |-> TRUE, is_running |-> FALSE]
            /\ mainpc' = "run"
            /\ frames' = frames
       ELSE IF mainpc = "run"
       THEN /\ main_loop' = [main_loop EXCEPT !.is_running = TRUE]
            /\ mainpc' = "running"
            /\ frames' = frames
       ELSE IF mainpc = "running"
       THEN /\ ~main_loop.is_running
            /\ mainpc' = "unref"
            /\ UNCHANGED <<main_loop, frames>>
       ELSE IF mainpc = "return"
       THEN /\ mainpc' = "exited"
            /\ frames' = <<[sig |-> "atexit", pc |-> "check"]>>
            /\ main_loop' = main_loop
       ELSE /\ mainpc' = MainOrder[PosOf(mainpc) + 1]
            /\ UNCHANGED <<main_loop, frames>>
    /\ UNCHANGED <<handled_exit, quits, reports, delivered, evars>>

\* a signal with exit_handler installed arrives; the signal a handler is
\* running for stays blocked until that handler returns
Deliver(maxSignals) ==
    /\ mainpc # "exited" \/ frames # <<>>
    /\ delivered < maxSignals
    /\ \E sig \in Installed(mainpc) :
        /\ \A k \in 1..Len(frames) : frames[k].sig # sig
        /\ frames' = Append(frames, [sig |-> sig, pc |-> "check"])
    /\ delivered' = delivered + 1
    /\ UNCHANGED <<mainpc, handled_exit, main_loop, quits, reports, evars>>

Top == frames[Len(frames)]

Return == SubSeq(frames, 1, Len(frames) - 1)

Goto(pc) == [frames EXCEPT ![Len(frames)].pc = pc]

\* one statement of the innermost exit_handler call
HandlerStep ==
    /\ frames # <<>>
    /\ IF Top.pc = "check"
       THEN /\ frames' = IF handled_exit THEN Return ELSE Goto("print")
            /\ UNCHANGED <<handled_exit, main_loop, quits, reports>>
       ELSE IF Top.pc = "print"
       THEN /\ reports' = reports + 1
            /\ frames' = Goto("test")
            /\ UNCHANGED <<handled_exit, main_loop, quits>>
       ELSE IF Top.pc = "test"
       THEN /\ frames' = IF main_loop.set THEN Goto("quit") ELSE Goto("flag")
            /\ UNCHANGED <<handled_exit, main_loop, quits, reports>>
       ELSE IF Top.pc = "quit"
       THEN /\ main_loop' = [main_loop EXCEPT !.is_running = FALSE]
            /\ quits' = quits + 1
            /\ frames' = Goto("flag")
            /\ UNCHANGED <<handled_exit, reports>>
       ELSE /\ handled_exit' = TRUE
            /\ frames' = Return
            /\ UNCHANGED <<main_loop, quits, reports>>
    /\ UNCHANGED <<mainpc, delivered, evars>>

\* the first statement of main
InitShutdown ==
    /\ EngineInit
    /\ mainpc = "atexit"
    /\ frames = <<>>
    /\ handled_exit = FALSE
    /\ main_loop = [set |-> FALSE, is_running |-> FALSE]
    /\ quits = 0
    /\ reports = 0
    /\ delivered = 0

NextShutdown ==
    \/ MainStep
    \/ Deliver(MaxSignals)
    \/ HandlerStep

SpecShutdown == InitShutdown /\ [][NextShutdown]_vars

(***************************************************************************)
(* Players that appear paused with a short text and change afterwards, so  *)
(* that any other text or status of a player was reported after it appeared *)
(***************************************************************************)
AppearTracks == {ShortTrack}

AppearStatuses == {PAUSED}

ChangeTracks == {ShortTrack, LongTrack}

\* three players, two of them with the same name at different sources
BackgroundUIDs == UIDs \cup {[name |-> "a", source |-> "DBUS_SYSTEM"]}

NextBackground ==
    \/ NameAppeared(BackgroundUIDs, AppearTracks, AppearStatuses, NoArt, MaxPlayers)
    \/ NameVanished(BackgroundUIDs)
    \/ PropertyChanged(ChangeTracks, RegStatuses, NoArt)
    \/ Tick(ExtraTicks + 1)

SpecBackground == Init /\ [][NextBackground]_vars

(***************************************************************************)
(* encode on its own, on every string of at most MaxLen characters         *)
(***************************************************************************)
\* the eight escaped characters and three that are not: a letter and the two
\* characters the escapes themselves are made of
Alphabet == Special \cup {"a", ";", "\\"}

Inputs == UNION {[1..n -> Alphabet] : n \in 0..MaxLen}

InitEncode ==
    /\ EngineFields
    /\ LoopRunning
    /\ \E str \in Inputs : pure = [input |-> str, output |-> <<>>, done |-> FALSE]

CallEncode ==
    /\ ~pure.done
    /\ pure' = [pure EXCEPT !.output = encode(pure.input), !.done = TRUE]
    /\ UNCHANGED <<managed_players, selected_idx, to_display, to_display_utf8_len,
                   needs_scrolling, display_offset, is_playing, last_src, cache, running,
                   emitted, selects, updates, lastUpd, repeated, lastEvent, e2e, nticks,
                   art_updated, sdvars>>

NextEncode == CallEncode

SpecEncode == InitEncode /\ [][NextEncode]_vars

(***************************************************************************)
(* Properties                                                              *)
(***************************************************************************)
SelectedPositions == {k \in 1..Len(managed_players) : managed_players[k].is_selected}

\* C1: a registry holding at least one player has exactly one player with
\* is_selected set, selected_idx is the index of that player and
\* selected_player() returns it; an empty registry has selected_idx = NON_IDX
\* and selected_player() returns nullptr.
SelectionInvariant ==
    IF managed_players = <<>>
    THEN selected_idx = NON_IDX /\ selected_player = nullptr
    ELSE /\ Cardinality(SelectedPositions) = 1
         /\ selected_idx # NON_IDX
         /\ selected_idx >= 0 /\ selected_idx < Len(managed_players)
         /\ SelectedPositions = {selected_idx + 1}
         /\ selected_player.is_selected

\* the selected player has vanished from a registry of three
SelectionMoved ==
    /\ lastEvent.kind = "vanished" /\ lastEvent.found /\ lastEvent.was_selected
    /\ Len(managed_players) = 2
    /\ Cardinality(SelectedPositions) = 1

NoSharedIdentity ==
    \A i, j \in 1..Len(managed_players) :
        i # j => managed_players[i].uid # managed_players[j].uid

\* C2: no two players of the registry have the same name and source, and an
\* add_player_by_name for a name and source already in the registry changes
\* neither managed_players (so neither its size) nor selected_idx.
DuplicateAddIgnored ==
    /\ []NoSharedIdentity
    /\ [][(/\ lastEvent'.kind = "appeared"
           /\ \E k \in 1..Len(managed_players) : managed_players[k].uid = lastEvent'.uid)
          => (managed_players' = managed_players /\ selected_idx' = selected_idx)]_vars

\* an add for an identity already present has just been handled, next to a
\* player sharing its name and one sharing its source
DuplicateAddSeen ==
    /\ lastEvent.kind = "appeared" /\ lastEvent.found
    /\ \E k \in 1..Len(managed_players) : managed_players[k].uid = lastEvent.uid
    /\ \E k \in 1..Len(managed_players) :
          /\ managed_players[k].uid.name = lastEvent.uid.name
          /\ managed_players[k].uid.source # lastEvent.uid.source
    /\ emitted = <<display_print(ShouldNotExist)>>

UidsOf(players) == [k \in 1..Len(players) |-> players[k].uid]

\* C3: when the selected player vanishes and others remain, the player that
\* followed it in managed_players (the first one when it was last) is the one
\* selected afterwards, the order of the others is kept, and on_select is
\* called exactly once, for that player.
ReselectsFollowing ==
    [][\A k \in 1..Len(managed_players) :
         (/\ lastEvent'.kind = "vanished"
          /\ managed_players[k].uid = lastEvent'.uid
          /\ managed_players[k].is_selected
          /\ Len(managed_players) > 1)
         => LET follower == IF k < Len(managed_players)
                            THEN managed_players[k + 1] ELSE managed_players[1]
            IN /\ UidsOf(managed_players') = UidsOf(Erase(managed_players, k))
               /\ selected_idx' # NON_IDX
               /\ selected_player'.uid = follower.uid
               /\ \A j \in 1..Len(managed_players') :
                     managed_players'[j].is_selected <=> managed_players'[j].uid = follower.uid
               /\ selects' = <<follower.uid>>]_vars

\* the selected player has vanished from a registry of three and on_select
\* was called for the one now selected
FollowerSelected ==
    /\ lastEvent.kind = "vanished" /\ lastEvent.found /\ lastEvent.was_selected
    /\ Len(managed_players) = 2
    /\ selected_idx # NON_IDX
    /\ selects = <<managed_players[selected_idx + 1].uid>>

\* C4: the removal of a player that is not the selected one calls on_select
\* for no player.
NoSelectOnOtherVanish ==
    (lastEvent.kind = "vanished" /\ lastEvent.found /\ ~lastEvent.was_selected)
    => selects = <<>>

\* the escape sequences the two escaping routines write
Escapes == {EscapeOf(c) : c \in Special}

EscapesAt(p, i) ==
    {x \in Escapes : i + Len(x) - 1 <= Len(p) /\ SubSeq(p, i, i + Len(x) - 1) = x}

\* codepoints a payload shows, an escape sequence counting as one
RECURSIVE VisibleFrom(_, _, _)
VisibleFrom(p, i, n) ==
    IF i > Len(p) THEN n
    ELSE IF EscapesAt(p, i) = {} THEN VisibleFrom(p, i + 1, n + 1)
    ELSE VisibleFrom(p, i + Len(CHOOSE x \in EscapesAt(p, i) : TRUE), n + 1)

VisibleLen(p) == VisibleFrom(p, 1, 0)

\* C5: every line written to stdout shows at most max_width codepoints.
BoundedWidth ==
    \A k \in 1..Len(emitted) : VisibleLen(emitted[k].payload) <= max_width

\* a special character stands in the payload as itself
HasUnescaped(p) ==
    \E i \in 1..Len(p) :
        \/ p[i] \in Special \ {"&"}
        \/ p[i] = "&" /\ EscapesAt(p, i) = {}

\* C6: no line display() writes carries one of & " ' < > newline tab
\* carriage-return of the title or artist unescaped.
EscapedPayload ==
    \A k \in 1..Len(emitted) :
        emitted[k].by = "display" => ~HasUnescaped(emitted[k].payload)

\* C7: every line display() writes has the <i> markers exactly when the
\* selected player's playback status is not PLAYING, and a property change of
\* the selected player that keeps title and artist and flips playing writes
\* exactly one line, the text at the current offset with the new markers,
\* leaving text and offset as they were.
MarkupFollowsStatus ==
    /\ [](\A k \in 1..Len(emitted) :
            emitted[k].by = "display"
            => /\ selected_idx # NON_IDX
               /\ emitted[k].italic = (selected_player.playback_status # PLAYING))
    /\ [][(/\ lastEvent'.kind = "changed"
           /\ lastEvent'.was_selected
           /\ updates' # <<>>
           /\ updates'[1].title = last_src.title
           /\ updates'[1].artist = last_src.artist
           /\ updates'[1].playing # is_playing)
          => /\ emitted' = <<Line("display", ~updates'[1].playing, displayBody(Engine).text)>>
             /\ to_display' = to_display
             /\ display_offset' = display_offset
             /\ needs_scrolling' = needs_scrolling]_vars

\* the selected player stopped playing while its text was scrolling, and one
\* line with the markers was written
MarkupReemitted ==
    /\ lastEvent.kind = "changed" /\ lastEvent.was_selected
    /\ needs_scrolling /\ nticks > 0
    /\ selected_idx # NON_IDX
    /\ selected_player.playback_status = STOPPED
    /\ Len(emitted) = 1 /\ emitted[1].italic

TextLen(a) ==
    Len(a.title) + (IF a.title # <<>> /\ a.artist # <<>> THEN 3 ELSE 0) + Len(a.artist)

\* C8: after an on_update_seleceted call, needs_scrolling is true exactly
\* when title, separator (only between a non-empty title and a non-empty
\* artist) and artist together have more than max_width codepoints.
BoundaryDecidesScrolling ==
    updates # <<>> => (needs_scrolling <=> TextLen(updates[1]) > max_width)

\* C9: while scrolling, display_offset is the number of scroll steps since the
\* text was set, modulo its length plus 3, and the step that completes a
\* cycle writes the window of offset 0: the first max_width codepoints, escaped.
CyclePeriod ==
    needs_scrolling
    => /\ display_offset = nticks % (to_display_utf8_len + 3)
       /\ (lastEvent.kind = "tick" /\ nticks > 0 /\ nticks % (to_display_utf8_len + 3) = 0)
          => emitted = <<Line("display", ~is_playing, encode(SubSeq(to_display, 1, max_width)))>>

\* the scroll step number L + 3 has just been taken
CycleCompleted ==
    /\ needs_scrolling
    /\ lastEvent.kind = "tick"
    /\ nticks = to_display_utf8_len + 3
    /\ display_offset = 0

\* C10: an on_update_seleceted call with the title, artist and playing state
\* of the call before it writes no line and changes neither to_display nor
\* display_offset.
NoOpUpdate ==
    [][repeated'
       => /\ emitted' = <<>>
          /\ to_display' = to_display
          /\ to_display_utf8_len' = to_display_utf8_len
          /\ display_offset' = display_offset]_vars

\* the selected player reported the same title, artist and status again
\* while its text was scrolled away from offset 0
RepeatedUpdate ==
    /\ repeated
    /\ lastEvent.kind = "changed"
    /\ needs_scrolling /\ display_offset > 0

\* what a player's title and artist show at offset 0: the whole text when it
\* fits, its first max_width codepoints otherwise, escaped
FirstWindow(player) ==
    LET sep == IF player.title # <<>> /\ player.artist # <<>> THEN seperator ELSE <<>>
        raw == player.title \o sep \o player.artist
    IN encode(SubSeq(raw, 1, IF Len(raw) <= max_width THEN Len(raw) ELSE max_width))

\* C11: from the initial state, the first player appearing with a text and
\* PLAYING writes one line with its text and no markers; its change to PAUSED
\* writes one line with the same text inside the markers; its vanishing
\* writes exactly the empty line and leaves the registry empty, nothing selected.
EndToEnd ==
    /\ e2e = "appeared"
       => /\ selected_idx # NON_IDX
          /\ emitted = <<Line("display", FALSE, FirstWindow(selected_player))>>
    /\ e2e = "paused"
       => /\ selected_idx # NON_IDX
          /\ emitted = <<Line("display", TRUE, FirstWindow(selected_player))>>
    /\ e2e = "vanished"
       => /\ emitted = <<Line("display_print", FALSE, <<>>)>>
          /\ managed_players = <<>>
          /\ selected_idx = NON_IDX
          /\ selected_player = nullptr

\* the three events have happened in this order
EndToEndDone == e2e = "vanished" /\ lastEvent.kind = "vanished"

\* C12: what sits at cache_path is nothing, or a link to the local file the
\* selected player's art url names; it is nothing when that url is remote or
\* empty and when no player is selected.
CacheFollowsSelection ==
    \/ cache = <<>>
    \/ /\ selected_idx # NON_IDX
       /\ starts_with(selected_player.art_url, FilePrefix)
       /\ cache = <<SubSeq(selected_player.art_url, 8, Len(selected_player.art_url))>>

\* C13: a name-appeared event whose Player construction fails leaves the
\* registry and selection as they were and the exception does not leave the
\* callback: the process goes on handling events.
ConstructionFailureContained ==
    lastEvent.kind = "throw" => running

\* C14: a name-vanished event for an identity that is not in the registry
\* changes neither managed_players (so no is_selected flag), nor selected_idx,
\* nor any field of the OutputGenerator, calls on_select for no player and
\* does not call on_empty: the one line written is the anomaly report.
MissingRemoveSkipped ==
    [][(/\ lastEvent'.kind = "vanished"
        /\ \A k \in 1..Len(managed_players) : managed_players[k].uid # lastEvent'.uid)
       => /\ managed_players' = managed_players
          /\ selected_idx' = selected_idx
          /\ Engine' = Engine
          /\ selects' = <<>>
          /\ updates' = <<>>
          /\ emitted' = <<display_print(ShouldExist)>>]_vars

\* a name-vanished for an absent identity has been handled while other
\* players, one sharing its name, were registered
MissingRemoveSeen ==
    /\ lastEvent.kind = "vanished" /\ ~lastEvent.found
    /\ Len(managed_players) >= 2
    /\ \E k \in 1..Len(managed_players) : managed_players[k].uid.name = lastEvent.uid.name
    /\ emitted = <<display_print(ShouldExist)>>

\* C15: whatever termination signals arrive and however their handlers nest,
\* g_main_loop_quit is called at most once and "Exiting cleanly..." is
\* written at most once.
ShutdownOnce == quits <= 1 /\ reports <= 1

\* the image of one character as the escaping table states it
Image(c) ==
    IF c = "&" THEN <<"&", "a", "m", "p", ";">>
    ELSE IF c = "\"" THEN <<"&", "q", "u", "o", "t", ";">>
    ELSE IF c = "'" THEN <<"&", "a", "p", "o", "s", ";">>
    ELSE IF c = "<" THEN <<"&", "l", "t", ";">>
    ELSE IF c = ">" THEN <<"&", "g", "t", ";">>
    ELSE IF c = "\n" THEN <<"\\", "n">>
    ELSE IF c = "\t" THEN <<"\\", "t">>
    ELSE IF c = "\r" THEN <<"\\", "r">>
    ELSE <<c>>

RECURSIVE Images(_)
Images(str) == IF str = <<>> THEN <<>> ELSE Image(Head(str)) \o Images(Tail(str))

\* C16: encode returns, for every string, the images of its characters in
\* order, and so the string itself when none of the eight characters occurs.
EncodeCharacterWise ==
    pure.done
    => /\ pure.output = Images(pure.input)
       /\ (\A i \in 1..Len(pure.input) : pure.input[i] \notin Special)
          => pure.output = pure.input

\* encode has been called on <a& and returned &lt;a&amp;
EncodeApplied ==
    /\ pure.done
    /\ pure.input = <<"<", "a", "&">>
    /\ pure.output = <<"&", "l", "t", ";", "a", "&", "a", "m", "p", ";">>

\* C17: a scroll step taken while a player is selected and needs_scrolling is
\* set moves display_offset on by one, or back to 0 from the last position of
\* the cycle, and writes one line; a scroll step with no player selected or
\* with needs_scrolling clear writes nothing and leaves every engine field.
\* Apart from scroll steps display_offset changes only in an update whose
\* title or artist differs from last_src, which sets it to 0.
TickAdvancesOnlyScrolling ==
    /\ [][lastEvent'.kind = "tick"
          => IF selected_idx # NON_IDX /\ needs_scrolling
             THEN /\ Len(emitted') = 1
                  /\ emitted'[1].by = "display"
                  /\ \/ display_offset' = display_offset + 1
                     \/ /\ display_offset + 1 = to_display_utf8_len + 3
                        /\ display_offset' = 0
                  /\ [Engine EXCEPT !.display_offset = 0]'
                        = [Engine EXCEPT !.display_offset = 0]
             ELSE /\ emitted' = <<>>
                  /\ Engine' = Engine]_vars
    /\ [][display_offset' # display_offset
          => \/ lastEvent'.kind = "tick"
             \/ /\ updates' # <<>>
                /\ \/ updates'[Len(updates')].title # last_src.title
                   \/ updates'[Len(updates')].artist # last_src.artist
                /\ display_offset' = 0]_vars

\* a scroll step was ignored after the last player left while its text was
\* scrolling
TickIgnoredWhenEmpty ==
    /\ lastEvent.kind = "tick"
    /\ selected_idx = NON_IDX
    /\ to_display_utf8_len > max_width
    /\ display_offset > 0
    /\ emitted = <<>>

\* the max_width codepoints from position k of the text followed by the
\* separator, repeated for ever
CyclicWindow(raw, k) ==
    [i \in 1..max_width |-> (raw \o seperator)[((k + i - 1) % (Len(raw) + 3)) + 1]]

\* C18: while a text of L > max_width codepoints scrolls, every line display()
\* writes n scroll steps after the last rebuild of the text is the escaped
\* window of max_width codepoints at position n mod (L + 3) of the text
\* followed by the separator, repeated for ever.
WindowIsModular ==
    \A i \in 1..Len(emitted) :
        (selected_idx # NON_IDX /\ needs_scrolling /\ emitted[i].by = "display")
        => emitted[i].payload
              = Images(CyclicWindow(to_display, nticks % (Len(to_display) + 3)))

\* the window just written holds the end of the text, the whole separator
\* and more than one codepoint of the start of the text
WindowWrapped ==
    /\ selected_idx # NON_IDX /\ needs_scrolling
    /\ lastEvent.kind = "tick"
    /\ emitted # <<>>
    /\ display_offset < to_display_utf8_len
    /\ max_width - (to_display_utf8_len - display_offset) > 4

\* the window just written ends inside the separator
WindowEndsInSeparator ==
    /\ selected_idx # NON_IDX /\ needs_scrolling
    /\ lastEvent.kind = "tick"
    /\ emitted # <<>>
    /\ display_offset < to_display_utf8_len
    /\ max_width - (to_display_utf8_len - display_offset) \in 1..3

\* C19: a property change of a player that is not selected is stored in that
\* player and nowhere else: no line is written, no OutputGenerator field and
\* not the cover link changes, update_cover_art is not called, and the
\* registry keeps its players, their order and the selection.
BackgroundChangeSilent ==
    [][(lastEvent'.kind = "changed" /\ ~lastEvent'.was_selected)
       => /\ emitted' = <<>>
          /\ Engine' = Engine
          /\ ~art_updated'
          /\ updates' = <<>>
          /\ selected_idx' = selected_idx
          /\ Len(managed_players') = Len(managed_players)
          /\ \A k \in 1..Len(managed_players) :
                IF managed_players[k].uid = lastEvent'.uid
                THEN /\ managed_players'[k].uid = managed_players[k].uid
                     /\ ~managed_players'[k].is_selected
                ELSE managed_players'[k] = managed_players[k]]_vars

\* a player in the background now holds a title and an art url other than
\* the ones on display, while the selected player's text is scrolled on
BackgroundChanged ==
    /\ lastEvent.kind = "changed"
    /\ ~lastEvent.was_selected
    /\ selected_idx # NON_IDX
    /\ needs_scrolling /\ display_offset > 0
    /\ \E k \in 1..Len(managed_players) :
          /\ managed_players[k].uid = lastEvent.uid
          /\ managed_players[k].title # last_src.title
          /\ managed_players[k].art_url # last_src.art_url
          /\ managed_players[k].art_url # <<>>

\* C20: a call of on_update_seleceted calls update_cover_art exactly when the
\* player's art url differs from last_src.art_url, whatever the title and
\* artist, and leaves the player's art url in last_src.art_url (so the next
\* call with that url does not call it again); when title, artist and playing
\* state are the ones last rendered the call writes no line and changes
\* neither to_display nor display_offset.  No other event calls
\* update_cover_art.
CoverArtFollowsArtUrl ==
    [][IF updates' # <<>>
       THEN /\ art_updated' = (updates'[Len(updates')].art_url # last_src.art_url)
            /\ last_src'.art_url = updates'[Len(updates')].art_url
            /\ (/\ updates'[Len(updates')].title = last_src.title
                /\ updates'[Len(updates')].artist = last_src.artist
                /\ updates'[Len(updates')].playing = is_playing)
               => /\ \A i \in 1..Len(emitted') : emitted'[i].by # "display"
                  /\ to_display' = to_display
                  /\ to_display_utf8_len' = to_display_utf8_len
                  /\ display_offset' = display_offset
       ELSE /\ ~art_updated'
            /\ last_src'.art_url = last_src.art_url]_vars

\* the selected player reported a new art url and nothing else while its text
\* was scrolled on
ArtOnlyUpdate ==
    /\ art_updated
    /\ lastEvent.kind = "changed"
    /\ emitted = <<>>
    /\ needs_scrolling /\ display_offset > 0

\* C21: selected_idx is always 0 or NON_IDX; when it is 0 it is inside the
\* registry and the player there is the only one with is_selected set.
\* Removing a player that is not selected therefore removes one behind the
\* selected player and leaves selected_idx and the selected player as they
\* were.
SelectedIsFirst ==
    /\ [](/\ selected_idx \in {0, NON_IDX}
          /\ selected_idx # NON_IDX
             => /\ selected_idx < Len(managed_players)
                /\ managed_players[selected_idx + 1].is_selected
          /\ \A k \in 1..Len(managed_players) :
                managed_players[k].is_selected => k = selected_idx + 1)
    /\ [][(lastEvent'.kind = "vanished" /\ lastEvent'.found /\ ~lastEvent'.was_selected)
          => /\ FindUid(managed_players, lastEvent'.uid) > selected_idx + 1
             /\ selected_idx' = selected_idx
             /\ selected_player'.uid = selected_player.uid]_vars

\* a player behind the selected one has been removed from a full registry
BackgroundRemoved ==
    /\ lastEvent.kind = "vanished" /\ lastEvent.found /\ ~lastEvent.was_selected
    /\ Len(managed_players) = MaxPlayers - 1
    /\ selected_idx = 0

\* C22: the player selected by the event following the removal of the last
\* player (which wrote the empty line) gets a line written by display() in that
\* event when it has a title or an artist, whatever they and its playback
\* status are.
SelectionAfterEmptyRenders ==
    [][(/\ lastEvent.kind = "vanished" /\ lastEvent.found
        /\ managed_players = <<>>
        /\ emitted = <<display_print(<<>>)>>
        /\ lastEvent'.kind = "appeared"
        /\ selected_idx' # NON_IDX
        /\ (selected_player'.title # <<>> \/ selected_player'.artist # <<>>))
       => \E i \in 1..Len(emitted') : emitted'[i].by = "display"]_vars

\* C23: when the selected player vanishes and another player is selected in
\* its place, the engine works from what the provider reported last about
\* that player: these are the values stored in it, last_src and is_playing
\* take them, every line display() writes has the markers of the reported
\* status, and when the reported title or artist differs from the one
\* rendered before, the one line written is the first window of the reported
\* text.
PromotedRendersLatest ==
    [][(/\ lastEvent'.kind = "vanished" /\ lastEvent'.found /\ lastEvent'.was_selected
        /\ selected_idx' # NON_IDX)
       => /\ selected_player'.title = selected_player'.reported.title
          /\ selected_player'.artist = selected_player'.reported.artist
          /\ selected_player'.playback_status = selected_player'.reported.status
          /\ last_src'.title = selected_player'.reported.title
          /\ last_src'.artist = selected_player'.reported.artist
          /\ is_playing' = (selected_player'.reported.status = PLAYING)
          /\ \A i \in 1..Len(emitted') :
                emitted'[i].by = "display"
                => emitted'[i].italic = (selected_player'.reported.status # PLAYING)
          /\ (\/ selected_player'.reported.title # last_src.title
              \/ selected_player'.reported.artist # last_src.artist)
             => emitted' = <<Line("display",
                                  selected_player'.reported.status # PLAYING,
                                  FirstWindow(selected_player'.reported))>>]_vars

\* the player selected in place of the vanished one had appeared paused with
\* the short text and is rendered playing with the long one
PromotedAfterChange ==
    /\ lastEvent.kind = "vanished" /\ lastEvent.found /\ lastEvent.was_selected
    /\ selected_idx # NON_IDX
    /\ selected_player.title = LongTrack.title
    /\ selected_player.playback_status = PLAYING
    /\ emitted = <<Line("display", FALSE, FirstWindow(LongTrack))>>

\* C24: there is no state in which exit_handler has run to its end
\* (handled_exit is set and no call of it is in progress, so every later call
\* returns at its first line), the loop is running, and g_main_loop_quit was
\* never called.
HandledExitStopsLoop ==
    ~(/\ handled_exit
      /\ frames = <<>>
      /\ main_loop.set /\ main_loop.is_running
      /\ quits = 0)

====
